---- MODULE Spec2Model ----
(***************************************************************************)
(* State-machine model of the two Streamlit scripts of the legal agent     *)
(* team: legal_agent_team.py (cloud Qdrant + OpenAI, state kept in         *)
(* st.session_state) and local_legal_agent.py (local Qdrant + Ollama, no   *)
(* session state).  One step of the model is one complete run of the       *)
(* script's main(), as Streamlit performs it on every widget interaction.  *)
(***************************************************************************)
EXTENDS Integers, FiniteSets, Sequences, TLC

\* ------------------------------------------------------------------ bounds
\* calls of the Qdrant constructor in one session
MaxConnect == 2
\* calls of process_document / ingest_pdf in one session
MaxIngest == 2

\* ------------------------------------------------------------------ values
\* Python None in a slot that holds an object
None == [kind |-> "None"]
\* Python None in a slot that holds an optional string
Absent == "<None>"

\* what the user can type into a credential text_input ("" = left empty)
TypedValues == {"", "u"}
\* what st.secrets.get(NAME) can return: missing, configured empty, configured
SecretValues == {Absent, "", "s"}
\* names of the PDFs the user can upload
FileNames == {"a.pdf", "b.pdf"}

COLLECTION_NAME == "legal_documents"

AnalysisTypes ==
    {"Contract Review", "Legal Research", "Risk Assessment",
     "Compliance Check", "Custom Query"}

analysis_configs ==
    [t \in AnalysisTypes |->
        CASE t = "Contract Review" ->
               [query  |-> "Review this contract and identify key terms, obligations, and potential issues.",
                agents |-> <<"Contract Analyst">>]
          [] t = "Legal Research" ->
               [query  |-> "Research relevant cases and precedents related to this document.",
                agents |-> <<"Legal Researcher">>]
          [] t = "Risk Assessment" ->
               [query  |-> "Analyze potential legal risks and liabilities in this document.",
                agents |-> <<"Contract Analyst", "Legal Strategist">>]
          [] t = "Compliance Check" ->
               [query  |-> "Check this document for regulatory compliance issues.",
                agents |-> <<"Legal Researcher", "Contract Analyst", "Legal Strategist">>]
          [] OTHER ->
               [query  |-> Absent,
                agents |-> <<"Legal Researcher", "Contract Analyst", "Legal Strategist">>]]

\* ------------------------------------------------------------------ state
VARIABLES
    app,              \* which script this session runs: "cloud" or "local"
    secrets,          \* st.secrets, fixed for the life of the process
    session,          \* st.session_state.{openai_api_key,qdrant_api_key,qdrant_url}
    vector_db,        \* st.session_state.vector_db
    knowledge_base,   \* st.session_state.knowledge_base
    legal_team,       \* st.session_state.legal_team
    processed_files,  \* st.session_state.processed_files
    locals,           \* local script: vector_db, kb, team of the last run of main()
    tmpfiles,         \* scratch .pdf paths that exist on disk
    nCtor,            \* Qdrant(...) constructor calls so far
    nIngest,          \* scratch files / Knowledge objects created so far
    addCalls,         \* per file name: Knowledge.add_content invocations so far
    run               \* what the last script run did and showed

vars == <<app, secrets, session, vector_db, knowledge_base, legal_team,
          processed_files, locals, tmpfiles, nCtor, nIngest, addCalls, run>>

\* ------------------------------------------------------------------ helpers
\* Python truthiness of an optional string
Truthy(s) == s # Absent /\ s # ""

\* variant of PyOr: `a if a is not None else b`, an empty first value wins
PyOrNotNone(a, b) == IF a # Absent THEN a ELSE b

\* Python `a or b` on optional strings
PyOr(a, b) == IF Truthy(a) THEN a ELSE b

get_openai_key(sec, ses) == PyOr(sec.OPENAI_API_KEY, ses.openai_api_key)

get_qdrant_key(sec, ses) == PyOr(sec.QDRANT_API_KEY, ses.qdrant_api_key)

get_qdrant_url(sec, ses) == PyOr(sec.QDRANT_URL, ses.qdrant_url)

\* init_session_state(): every slot starts as None, processed_files as set()
init_session_state ==
    /\ session = [openai_api_key |-> Absent, qdrant_api_key |-> Absent,
                  qdrant_url |-> Absent]
    /\ vector_db = None
    /\ legal_team = None
    /\ knowledge_base = None
    /\ processed_files = {}

\* the Qdrant client object built by the constructor call number id
Qdrant(id, collection, url, api_key, embedder_key) ==
    [kind |-> "Qdrant", id |-> id, collection |-> collection, url |-> url,
     api_key |-> api_key, embedder_key |-> embedder_key]

\* Knowledge(vector_db=vector_db), object number id
Knowledge(id, vdb) == [kind |-> "Knowledge", id |-> id, vector_db |-> vdb]

Agent(name, kb) == [name |-> name, knowledge |-> kb, search_knowledge |-> TRUE]

\* Team(members=[researcher, analyst, strategist], knowledge=kb)
Team(name, kb) ==
    [kind |-> "Team", name |-> name, knowledge |-> kb, search_knowledge |-> TRUE,
     members |-> << Agent("Legal Researcher", kb),
                    Agent("Contract Analyst", kb),
                    Agent("Legal Strategist", kb) >>]

\* variant of init_qdrant: the except branch reports the error but still hands
\* back a client object
init_qdrant_keeps_client(sec, ses, ctorOk, id) ==
    IF ~(Truthy(get_qdrant_key(sec, ses)) /\ Truthy(get_qdrant_url(sec, ses)))
    THEN [result |-> None, attempted |-> FALSE, error |-> FALSE]
    ELSE [result |-> Qdrant(id, COLLECTION_NAME, get_qdrant_url(sec, ses),
                            get_qdrant_key(sec, ses), get_openai_key(sec, ses)),
          attempted |-> TRUE, error |-> ~ctorOk]

\* init_qdrant(): ctorOk says whether Qdrant(...) returns or raises
init_qdrant(sec, ses, ctorOk, id) ==
    IF ~(Truthy(get_qdrant_key(sec, ses)) /\ Truthy(get_qdrant_url(sec, ses)))
    THEN [result |-> None, attempted |-> FALSE, error |-> FALSE]
    ELSE IF ctorOk
         THEN [result |-> Qdrant(id, COLLECTION_NAME, get_qdrant_url(sec, ses),
                                 get_qdrant_key(sec, ses), get_openai_key(sec, ses)),
               attempted |-> TRUE, error |-> FALSE]
         ELSE [result |-> None, attempted |-> TRUE, error |-> TRUE]

\* process_document(): addOk / unlinkOk say whether add_content / os.unlink
\* return or raise; id numbers the scratch file and the Knowledge object
process_document(vdb, sec, ses, addOk, unlinkOk, id, files) ==
    IF ~Truthy(get_openai_key(sec, ses))
    THEN [raised |-> TRUE, kb |-> None, files |-> files, path |-> 0,
          add_called |-> FALSE, reported |-> FALSE]
    ELSE IF ~addOk
         THEN [raised |-> TRUE, kb |-> None, files |-> files \cup {id}, path |-> id,
               add_called |-> TRUE, reported |-> TRUE]
         ELSE [raised |-> FALSE, kb |-> Knowledge(id, vdb),
               files |-> IF unlinkOk THEN (files \cup {id}) \ {id} ELSE files \cup {id},
               path |-> id, add_called |-> TRUE, reported |-> FALSE]

\* ingest_pdf() of the local script: nothing is caught
ingest_pdf(vdb, addOk, unlinkOk, id, files) ==
    IF ~addOk
    THEN [raised |-> TRUE, kb |-> None, files |-> files \cup {id}, path |-> id,
          add_called |-> TRUE]
    ELSE IF ~unlinkOk
         THEN [raised |-> TRUE, kb |-> None, files |-> files \cup {id}, path |-> id,
               add_called |-> TRUE]
         ELSE [raised |-> FALSE, kb |-> Knowledge(id, vdb),
               files |-> (files \cup {id}) \ {id}, path |-> id, add_called |-> TRUE]

\* get_vector_db() of the local script
get_vector_db(id) ==
    Qdrant(id, "legal_knowledge", "http://localhost:6333", Absent, Absent)

\* the report of a script run that did nothing yet
NoRun ==
    [connect |-> "none", connect_creds |-> <<Absent, Absent, Absent>>,
     ingest |-> "none", file |-> Absent, path |-> 0,
     msgs |-> {}, dispatched |-> None, raised |-> FALSE]

\* combined_query of main(): the f-string, kept as its sequence of parts
combined_query(analysis_type, user_query) ==
    IF analysis_type # "Custom Query"
    THEN << "Using the uploaded document as reference:",
            "Primary Analysis Task: ", analysis_configs[analysis_type].query,
            "Focus Areas: ", analysis_configs[analysis_type].agents,
            "Please search the knowledge base and provide specific references from the document." >>
    ELSE << "Using the uploaded document as reference:",
            user_query,
            "Please search the knowledge base and provide specific references from the document.",
            "Focus Areas: ", analysis_configs[analysis_type].agents >>

\* legal_team.run(combined_query): what was handed to which team
Dispatch(team, task, text) ==
    [kind |-> "Run", team |-> team, query |-> task, text |-> text]

\* the sidebar text_input blocks: a non-empty input overwrites the session value
StoreInputs(ses, openai_in, qkey_in, qurl_in) ==
    [openai_api_key |-> IF Truthy(openai_in) THEN openai_in ELSE ses.openai_api_key,
     qdrant_api_key |-> IF Truthy(qkey_in) THEN qkey_in ELSE ses.qdrant_api_key,
     qdrant_url     |-> IF Truthy(qurl_in) THEN qurl_in ELSE ses.qdrant_url]

\* `if all([get_qdrant_key(), get_qdrant_url()]): if not st.session_state.vector_db:`
ShouldConnect(sec, ses, vdb) ==
    /\ Truthy(get_qdrant_key(sec, ses))
    /\ Truthy(get_qdrant_url(sec, ses))
    /\ vdb = None

\* `if all([get_openai_key(), st.session_state.vector_db]):`
UploadSection(sec, ses, vdb) == Truthy(get_openai_key(sec, ses)) /\ vdb # None

\* `if uploaded_file: if uploaded_file.name not in st.session_state.processed_files:`
ShouldIngest(uploaded, processed) == uploaded # Absent /\ uploaded \notin processed

\* variant of QueryAccepted: the empty-query check is dropped
QueryAcceptedAlways(analysis_type, user_query) == TRUE

\* `if analysis_type == "Custom Query" and not user_query:` warn, else run
QueryAccepted(analysis_type, user_query) ==
    ~(analysis_type = "Custom Query" /\ ~Truthy(user_query))

\* ------------------------------------------------------------------ Init
Init ==
    /\ app \in {"cloud", "local"}
    /\ secrets \in [OPENAI_API_KEY : SecretValues, QDRANT_API_KEY : SecretValues,
                    QDRANT_URL : SecretValues]
    /\ init_session_state
    /\ locals = [vector_db |-> None, kb |-> None, team |-> None]
    /\ tmpfiles = {}
    /\ nCtor = 0
    /\ nIngest = 0
    /\ addCalls = [f \in FileNames |-> 0]
    /\ run = NoRun

\* ------------------------------------------------------------------ cloud script
\* variant of SessionAfterIngest: the team is built once and kept afterwards
SessionAfterIngestKeepsTeam(pd, uploaded, kb, team, processed) ==
    IF pd.raised
    THEN [knowledge_base |-> kb, legal_team |-> team, processed_files |-> processed]
    ELSE [knowledge_base |-> pd.kb,
          legal_team |-> IF team # None THEN team ELSE Team("Legal Team Lead", pd.kb),
          processed_files |-> processed \cup {uploaded}]

\* variant of SessionAfterIngest: the file name is recorded before the call of
\* process_document, so it stays recorded when the call raises
SessionAfterIngestMarksFirst(pd, uploaded, kb, team, processed) ==
    IF pd.raised
    THEN [knowledge_base |-> kb, legal_team |-> team,
          processed_files |-> processed \cup {uploaded}]
    ELSE [knowledge_base |-> pd.kb,
          legal_team |-> Team("Legal Team Lead", pd.kb),
          processed_files |-> processed \cup {uploaded}]

\* main() lines 144-208: the session slots after process_document returned the
\* report pd for the file named uploaded; when it raised, the exception leaves
\* main() before any of the three assignments
SessionAfterIngest(pd, uploaded, kb, team, processed) ==
    IF pd.raised
    THEN [knowledge_base |-> kb, legal_team |-> team, processed_files |-> processed]
    ELSE [knowledge_base |-> pd.kb,
          legal_team |-> Team("Legal Team Lead", pd.kb),
          processed_files |-> processed \cup {uploaded}]

\* main() lines 129-133: what the sidebar reports about the call of init_qdrant
ConnectReport(conn, sec, ses) ==
    [NoRun EXCEPT
       !.connect = IF conn.error THEN "failed"
                   ELSE IF conn.attempted THEN "ok" ELSE "guarded",
       !.connect_creds = << get_openai_key(sec, ses), get_qdrant_key(sec, ses),
                            get_qdrant_url(sec, ses) >>,
       !.msgs = (IF conn.error THEN {"qdrant_error"} ELSE {})
                \cup (IF conn.result # None THEN {"qdrant_connected"} ELSE {})]

\* main() lines 227-304: the main area, given what the sidebar left
MainArea(rep, section, uploaded, team, button, analysis_type, user_query) ==
    IF ~section THEN [rep EXCEPT !.msgs = @ \cup {"configure_info"}]
    ELSE IF uploaded = Absent THEN [rep EXCEPT !.msgs = @ \cup {"upload_info"}]
    ELSE IF team = None \/ ~button THEN rep
    ELSE IF ~QueryAccepted(analysis_type, user_query)
         THEN [rep EXCEPT !.msgs = @ \cup {"enter_query_warning"}]
    ELSE [rep EXCEPT !.dispatched =
            Dispatch(team,
                     IF analysis_type = "Custom Query" THEN user_query
                     ELSE analysis_configs[analysis_type].query,
                     combined_query(analysis_type, user_query))]

\* main() of legal_agent_team.py from the upload section on, given the session
\* credentials ses and the handle vdb the sidebar left, and the connect report rep
CloudAfterConnect(ses, vdb, rep) ==
    \E uploaded \in (IF UploadSection(secrets, ses, vdb)
                     THEN FileNames \cup {Absent} ELSE {Absent}) :
      LET section == UploadSection(secrets, ses, vdb)
          rep1 == [rep EXCEPT !.msgs = @ \cup (IF section THEN {"upload_section"}
                                                ELSE {"configure_warning"})]
          ingesting == section /\ ShouldIngest(uploaded, processed_files)
      IN
      \E addOk \in (IF ingesting THEN BOOLEAN ELSE {TRUE}) :
      \E unlinkOk \in (IF ingesting /\ addOk THEN BOOLEAN ELSE {TRUE}) :
        LET pd == process_document(vdb, secrets, ses, addOk, unlinkOk,
                                   nIngest + 1, tmpfiles)
            after == IF ingesting
                     THEN SessionAfterIngest(pd, uploaded, knowledge_base, legal_team,
                                             processed_files)
                     ELSE [knowledge_base |-> knowledge_base, legal_team |-> legal_team,
                           processed_files |-> processed_files]
            rep2 == IF ~ingesting THEN rep1
                    ELSE IF pd.raised
                    THEN [rep1 EXCEPT !.ingest = "raised", !.file = uploaded,
                                      !.path = pd.path, !.raised = TRUE,
                                      !.msgs = @ \cup (IF pd.reported
                                                       THEN {"document_error"} ELSE {})]
                    ELSE [rep1 EXCEPT !.ingest = "ok", !.file = uploaded,
                                      !.path = pd.path,
                                      !.msgs = @ \cup {"stored", "team_initialized"}]
            \* an exception out of process_document ends the run before the main area
            aborted == ingesting /\ pd.raised
            analysing == ~aborted /\ section /\ uploaded # Absent
                         /\ after.legal_team # None
        IN
        \E button \in (IF analysing THEN BOOLEAN ELSE {FALSE}) :
        \E analysis_type \in (IF button THEN AnalysisTypes ELSE {"Contract Review"}) :
        \E user_query \in (IF button /\ analysis_type = "Custom Query"
                            THEN {"", "q"} ELSE {""}) :
          /\ ingesting => nIngest < MaxIngest
          /\ session' = ses
          /\ vector_db' = vdb
          /\ knowledge_base' = after.knowledge_base
          /\ legal_team' = after.legal_team
          /\ processed_files' = after.processed_files
          /\ tmpfiles' = IF ingesting THEN pd.files ELSE tmpfiles
          /\ nIngest' = IF ingesting /\ pd.path # 0 THEN nIngest + 1 ELSE nIngest
          /\ addCalls' = IF ingesting /\ pd.add_called
                         THEN [addCalls EXCEPT ![uploaded] = @ + 1] ELSE addCalls
          /\ run' = IF aborted THEN rep2
                    ELSE MainArea(rep2, section, uploaded, after.legal_team,
                                  button, analysis_type, user_query)

\* one run of main() of legal_agent_team.py
CloudMain ==
    /\ app = "cloud"
    /\ \E ses \in { StoreInputs(session, openai_in, qkey_in, qurl_in) :
                       openai_in \in TypedValues, qkey_in \in TypedValues,
                       qurl_in \in TypedValues } :
         LET connecting == ShouldConnect(secrets, ses, vector_db)
         IN
         \E ctorOk \in (IF connecting THEN BOOLEAN ELSE {TRUE}) :
           LET conn == init_qdrant(secrets, ses, ctorOk, nCtor + 1)
               vdb == IF connecting THEN conn.result ELSE vector_db
               rep == IF connecting THEN ConnectReport(conn, secrets, ses) ELSE NoRun
           IN
           /\ (connecting /\ conn.attempted) => nCtor < MaxConnect
           /\ nCtor' = IF connecting /\ conn.attempted THEN nCtor + 1 ELSE nCtor
           /\ CloudAfterConnect(ses, vdb, rep)
    /\ UNCHANGED <<app, secrets, locals>>

\* ------------------------------------------------------------------ local script
\* one run of main() of local_legal_agent.py
LocalMain ==
    /\ app = "local"
    /\ nCtor < MaxConnect
    /\ nCtor' = nCtor + 1
    /\ \E ctorOk \in BOOLEAN :
         IF ~ctorOk
         THEN \* Qdrant(...) raised inside get_vector_db(): nothing is assigned
              /\ locals' = [vector_db |-> None, kb |-> None, team |-> None]
              /\ run' = [NoRun EXCEPT !.connect = "raised", !.raised = TRUE]
              /\ UNCHANGED <<tmpfiles, nIngest, addCalls>>
         ELSE
           LET vdb == get_vector_db(nCtor + 1)
               rep == [NoRun EXCEPT !.connect = "ok", !.msgs = {"qdrant_connected"}]
           IN
           \E uploaded \in FileNames \cup {Absent} :
             IF uploaded = Absent
             THEN /\ locals' = [vector_db |-> vdb, kb |-> None, team |-> None]
                  /\ run' = [rep EXCEPT !.msgs = @ \cup {"upload_info"}]
                  /\ UNCHANGED <<tmpfiles, nIngest, addCalls>>
             ELSE
               /\ nIngest < MaxIngest
               /\ nIngest' = nIngest + 1
               /\ addCalls' = [addCalls EXCEPT ![uploaded] = @ + 1]
               /\ \E addOk \in BOOLEAN :
                  \E unlinkOk \in (IF addOk THEN BOOLEAN ELSE {TRUE}) :
                    LET ing == ingest_pdf(vdb, addOk, unlinkOk, nIngest + 1, tmpfiles)
                    IN
                    /\ tmpfiles' = ing.files
                    /\ IF ing.raised
                       THEN /\ locals' = [vector_db |-> vdb, kb |-> None, team |-> None]
                            /\ run' = [rep EXCEPT !.ingest = "raised", !.file = uploaded,
                                                  !.path = ing.path, !.raised = TRUE]
                       ELSE
                         LET team == Team("Legal Team", ing.kb)
                         IN
                         /\ locals' = [vector_db |-> vdb, kb |-> ing.kb, team |-> team]
                         /\ \E query \in {"", "q"}, button \in BOOLEAN :
                              run' = [rep EXCEPT
                                        !.ingest = "ok", !.file = uploaded,
                                        !.path = ing.path,
                                        !.dispatched =
                                           IF button /\ Truthy(query)
                                           THEN Dispatch(team, query, <<query>>)
                                           ELSE None]
    /\ UNCHANGED <<app, secrets, session, vector_db, knowledge_base, legal_team,
                   processed_files>>

Next == CloudMain \/ LocalMain

Spec == Init /\ [][Next]_vars

\* ------------------------------------------------------------------ claims
\* a credential triple <<model key, store key, store URL>> with a field missing
AnyMissing(creds) == \E i \in 1..3 : ~Truthy(creds[i])

\* C1: whenever init_qdrant is called with a credential triple in which at least
\* one of the three fields is missing, it makes no connection attempt (Qdrant is
\* not constructed) and the handle is absent - also when only the model key is
\* the missing one.
C1_NoAttemptWhenAnyMissing ==
    (app = "cloud" /\ run.connect # "none" /\ AnyMissing(run.connect_creds))
        => (run.connect = "guarded" /\ vector_db = None)

\* C2: after an ingest that created its scratch file returned or raised, the
\* scratch file no longer exists.
C2_ScratchFileGone ==
    (run.ingest # "none" /\ run.path # 0) => run.path \notin tmpfiles

\* C3: within one session Knowledge.add_content is invoked at most once per
\* file name, over any sequence of runs and uploads.
C3_IndexedOncePerName == \A f \in FileNames : addCalls[f] <= 1

\* C4: after a run in which the Qdrant constructor raised, the failure was
\* reported, the session's handle is absent, no success message was shown, and
\* the upload and query sections stayed disabled (nothing ingested, nothing run).
C4_FailedConnectStaysDisconnected ==
    (app = "cloud" /\ run.connect = "failed")
        => /\ vector_db = None
           /\ "qdrant_error" \in run.msgs
           /\ "qdrant_connected" \notin run.msgs
           /\ "upload_section" \notin run.msgs
           /\ run.ingest = "none"
           /\ run.dispatched = None

\* C4 witness: a failed attempt in a session whose model key is resolved, so
\* that only the missing handle keeps the upload section closed
C4_Witness ==
    /\ app = "cloud"
    /\ run.connect = "failed"
    /\ Truthy(run.connect_creds[1])
    /\ nCtor = 2

\* C5: after a failed connection attempt, a later script run with unchanged
\* credentials does not call the connector again.
C5_NoAutomaticRetry ==
    [][ (app = "cloud" /\ run.connect = "failed" /\ session' = session)
            => nCtor' = nCtor ]_vars

\* C6: once a handle exists (in the session of the cloud script, in main() of
\* the local script), later runs construct no further client and keep the
\* same handle object.
C6_HandleReused ==
    [][ /\ (vector_db # None => (vector_db' = vector_db /\ nCtor' = nCtor))
        /\ (locals.vector_db # None
               => (locals'.vector_db = locals.vector_db /\ nCtor' = nCtor)) ]_vars

\* C7: whenever the team's run operation was invoked, the query handed to it is
\* non-empty and the team has at least one member.
C7_RunValidated ==
    run.dispatched # None
        => /\ Truthy(run.dispatched.query)
           /\ run.dispatched.team # None
           /\ Len(run.dispatched.team.members) >= 1

\* C7 witness: a custom query was dispatched by the cloud script
C7_Witness ==
    /\ app = "cloud"
    /\ run.dispatched # None
    /\ run.dispatched.query = "q"

\* what claim C8 says resolve returns for a secret-store value and a session value
Resolved(sec, ses, r) ==
    /\ (sec # Absent /\ sec # "") => r = sec
    /\ (sec = Absent \/ sec = "") => r = ses
    /\ ((sec = Absent \/ sec = "") /\ ses = Absent) => r = Absent
    /\ r # ""

\* C8: each of the three credentials resolves to the secret-store value when
\* that is present and non-empty, to the session value otherwise, and to absent
\* when both are missing; the connector is called with the values so resolved.
C8_SecretsFirst ==
    /\ Resolved(secrets.OPENAI_API_KEY, session.openai_api_key,
                get_openai_key(secrets, session))
    /\ Resolved(secrets.QDRANT_API_KEY, session.qdrant_api_key,
                get_qdrant_key(secrets, session))
    /\ Resolved(secrets.QDRANT_URL, session.qdrant_url,
                get_qdrant_url(secrets, session))
    /\ (app = "cloud" /\ run.connect # "none")
          => /\ Resolved(secrets.OPENAI_API_KEY, session.openai_api_key,
                         run.connect_creds[1])
             /\ Resolved(secrets.QDRANT_API_KEY, session.qdrant_api_key,
                         run.connect_creds[2])
             /\ Resolved(secrets.QDRANT_URL, session.qdrant_url,
                         run.connect_creds[3])

\* C8 witness: a connect that used a secret over a typed value for one
\* credential, a typed value behind an empty secret for another, and a typed
\* value behind a missing secret for the third
C8_Witness ==
    /\ app = "cloud"
    /\ run.connect = "ok"
    /\ secrets.OPENAI_API_KEY = "s" /\ session.openai_api_key = "u"
    /\ secrets.QDRANT_API_KEY = "" /\ session.qdrant_api_key = "u"
    /\ secrets.QDRANT_URL = Absent /\ session.qdrant_url = "u"
    /\ run.connect_creds = <<"s", "u", "u">>

\* team t and each of its three members reference the knowledge base kb
SharesKnowledge(t, kb) ==
    /\ kb # None
    /\ t.knowledge = kb
    /\ Len(t.members) = 3
    /\ \A i \in 1..Len(t.members) : t.members[i].knowledge = kb

\* C9: whenever a team exists, the team and its three members reference the
\* knowledge base held in the knowledge_base slot (the kb of main() in the
\* local script).
C9_SharedKnowledgeBase ==
    /\ legal_team # None => SharesKnowledge(legal_team, knowledge_base)
    /\ locals.team # None => SharesKnowledge(locals.team, locals.kb)

\* C9 witness: a second document replaced the knowledge base and the team
C9_Witness ==
    /\ app = "cloud"
    /\ legal_team # None
    /\ processed_files = FileNames
    /\ knowledge_base.id = 2

\* C10: a run in which process_document raises reports the error, leaves
\* processed_files, knowledge_base and legal_team as they were, and dispatches
\* no team run.
C10_FailedIngestLeavesSession ==
    [][ (app = "cloud" /\ run'.ingest = "raised")
            => /\ "document_error" \in run'.msgs
               /\ processed_files' = processed_files
               /\ run'.file \notin processed_files'
               /\ knowledge_base' = knowledge_base
               /\ legal_team' = legal_team
               /\ run'.dispatched = None ]_vars

\* C10 witness: ingestion of a second document failed while the team of the
\* first one is held
C10_Witness ==
    /\ app = "cloud"
    /\ run.ingest = "raised"
    /\ legal_team # None
    /\ run.file \notin processed_files

====
